---- MODULE Spec2Model ----
(***************************************************************************)
(* Meshpulse: three request-handling services (user, orders, payments)     *)
(* over one keyed record store.  Every handler is modelled stage by stage: *)
(* one action per database access or remote call, so that requests served  *)
(* by different workers interleave between stages.                         *)
(***************************************************************************)
EXTENDS Integers, FiniteSets, Sequences, TLC

(* ------------------------------ bounds -------------------------------- *)

\* Requests accepted in one behaviour (all services together).
MaxReq == 2

\* Worker slots that serve requests concurrently.
Procs == {1, 2}

(* --------------------------- input domains ----------------------------- *)

UserIds == {"u1", "u2"}

OrderIds == {"o1", "o2"}

PaymentIds == {"p1", "p2"}

\* amount is a float the handler does not validate: negative values are accepted.
Amounts == {-1, 2}

\* UserIn: the body of POST /users.
UserIn == [id : UserIds, name : {"Ann", "Bob"}, email : {"a@x"}, dob : {"2000-01-01"}, address : {"1 Main St"}]

\* OrderIn: the body of POST /orders.
OrderIn == [id : OrderIds, user_id : UserIds, item : {"book"}, price : {5}]

\* PaymentIn: the body of POST /payments.
PaymentIn == [id : PaymentIds, order_id : OrderIds, user_id : UserIds, amount : Amounts]

(* ------------------------------ state ---------------------------------- *)

\* The created_at columns of orders and payments are left out: they are
\* written once by a column default and read only by the order listing.

VARIABLES
    users,          \* rows of table "users"
    orders,         \* rows of table "orders"
    payments,       \* rows of table "payments"
    payment_total,  \* counter payments.total.amount
    err_ctr,        \* counter http.server.errors, per service and route label
    hist,           \* histogram http.server.duration: samples per service and route
    procs,          \* per worker slot: the request in flight, its locals, its span
                    \* attributes and (history) whether a remote call of it
                    \* failed in transport
    nreq,           \* requests accepted so far
    snap            \* history: tables and counters when the last request was accepted

vars == <<users, orders, payments, payment_total, err_ctr, hist, procs, nreq, snap>>

(* --------------------------- metric labels ----------------------------- *)

RouteUsersGet == "user-service /users/{user_id}"

RouteOrdersList == "orders-service /orders/{user_id}"

RouteOrdersCreate == "orders-service /orders"

RouteOrdersStatus == "orders-service /orders/status/{order_id}"

RoutePaymentsCreate == "payments-service /payments"

RoutePaymentsStatus == "payments-service /payments/status/{order_id}"

Routes == {RouteUsersGet, RouteOrdersList, RouteOrdersCreate, RouteOrdersStatus, RoutePaymentsCreate, RoutePaymentsStatus}

\* counter.add(1, {"route": r}) and hist.record(_, {"route": r}).
Inc(f, r) == [f EXCEPT ![r] = @ + 1]

(* ------------------------ responses and errors ------------------------- *)

NoBody == [none |-> TRUE]

Response(code, detail, body) == [code |-> code, detail |-> detail, body |-> body]

NoResult == Response(0, "", NoBody)

HTTPException(code, detail) == Response(code, detail, NoBody)

\* requests.get raised (connection refused, timeout): there is no response.
TransportError == Response(-1, "transport failure", NoBody)

\* An exception no handler catches: the framework answers 500.
InternalServerError == Response(500, "Internal Server Error", NoBody)

\* resp.raise_for_status() raises for 4xx and 5xx.
RaisesForStatus(resp) == resp.code >= 400 /\ resp.code < 600

\* Variant: the status of the answer is never looked at.
CallFailedTransportOnly(resp) == resp = TransportError

\* The try block around a remote call reaches its except branch.
CallFailed(resp) == resp = TransportError \/ RaisesForStatus(resp)

UserNotFound == HTTPException(404, "User not found")

UserExists == HTTPException(400, "User already exists")

OrderNotFound == HTTPException(404, "Order not found")

OrdersInvalidUser == HTTPException(400, "Invalid user ID")

OrdersInsertFailed == HTTPException(500, "Database insert failed")

DuplicatePayment == HTTPException(400, "Payment ID already exists")

InvalidOrder == HTTPException(404, "Invalid order ID")

OwnershipMismatch == HTTPException(400, "Order does not belong to user")

InvalidUser == HTTPException(404, "Invalid user ID")

\* Variant: a remote call without timeout whose answer never comes.
NetOutcomesNever == {}

\* How a remote call can go: answered; refused before the peer ran; timed
\* out after the peer ran (its effects stay, the caller sees a failure).
NetOutcomes == {"ok", "refused", "timeout"}

(* ------------------------------ records -------------------------------- *)

\* A worker slot with no request.  order: the row the orders handler read;
\* order_data: the body kept from a remote call's answer; status: the drawn
\* payment status.
\* spans: the spans the request started, in starting order; ended: their
\* names in the order they ended; steps: the numbered steps of create_payment
\* it ran; calls: the spans under which it issued a remote call.
Idle == [kind |-> "none", pc |-> "idle", req |-> NoBody, order |-> NoBody, order_data |-> NoBody, status |-> "", result |-> NoResult, attrs |-> {}, tf |-> FALSE, spans |-> <<>>, ended |-> <<>>, steps |-> <<>>, calls |-> <<>>]

\* span.set_attribute(key, value) on the span named `span`.
SetAttr(pr, span, key, value) == [pr EXCEPT !.attrs = @ \cup {<<span, key, value>>}]

\* A span just started.  parent: the span that was current then ("" for the
\* outermost span of a handler); exc: an exception left its with-block.
NewSpan(name, parent) == [name |-> name, parent |-> parent, status |-> "UNSET", open |-> TRUE, exc |-> FALSE]

\* The spans not ended yet, outermost first.
OpenSpans(pr) == SelectSeq(pr.spans, LAMBDA s : s.open)

\* The current span among `spans`: the innermost one not ended.
CurrentIn(spans) ==
    LET open == SelectSeq(spans, LAMBDA s : s.open) IN
    IF open = <<>> THEN "" ELSE open[Len(open)].name

\* The current span of a request.
Current(pr) == CurrentIn(pr.spans)

\* `with tracer.start_as_current_span(name)` as the first statement of a
\* handler.
StartHandlerSpan(pr, name) == [pr EXCEPT !.spans = Append(@, NewSpan(name, ""))]

\* `with tracer.start_as_current_span(name)` inside a handler's span.
StartSpan(pr, name) == [pr EXCEPT !.spans = Append(@, NewSpan(name, CurrentIn(@)))]

\* span.set_status(Status(StatusCode.ERROR)) on the open span `name`.
SetStatusError(pr, name) ==
    [pr EXCEPT !.spans = [i \in 1..Len(@) |->
        IF @[i].name = name /\ @[i].open THEN [@[i] EXCEPT !.status = "ERROR"] ELSE @[i]]]

\* Variant: a span started without a with-block and left as it is when an
\* exception passes.
ExitSpanOnReturnOnly(pr, name, raised) ==
    IF raised THEN pr
    ELSE [pr EXCEPT !.spans = [i \in 1..Len(@) |->
                IF @[i].name = name /\ @[i].open THEN [@[i] EXCEPT !.open = FALSE] ELSE @[i]],
                    !.ended = Append(@, name)]

\* Control leaves the with-block of the open span `name`, by an exception
\* when `raised`: the block marks the span failed then, and ends it always.
ExitSpan(pr, name, raised) ==
    [pr EXCEPT !.spans = [i \in 1..Len(@) |->
            IF @[i].name = name /\ @[i].open
            THEN [@[i] EXCEPT !.open = FALSE, !.exc = raised, !.status = IF raised THEN "ERROR" ELSE @]
            ELSE @[i]],
                !.ended = Append(@, name)]

\* Control leaves, innermost first, the with-blocks of the `n` innermost
\* open spans.
RECURSIVE Unwind(_, _, _)
Unwind(pr, n, raised) ==
    IF n = 0 \/ OpenSpans(pr) = <<>> THEN pr
    ELSE Unwind(ExitSpan(pr, Current(pr), raised), n - 1, raised)

\* The handler returns or raises: control leaves every with-block still
\* open and the request is answered with `resp`.
Finish(pr, resp) == [Unwind(pr, Len(OpenSpans(pr)), resp.code >= 400) EXCEPT !.pc = "done", !.result = resp]

\* A numbered step of create_payment begins.
BeginStep(pr, n) == [pr EXCEPT !.steps = Append(@, n)]

\* requests.get(...) issued under the span `name`.
Called(pr, name) == [pr EXCEPT !.calls = Append(@, name)]

\* History only: what the tables and counters hold right now.
Snapshot == [users |-> users, orders |-> orders, payments |-> payments, payment_total |-> payment_total, err_ctr |-> err_ctr]

\* The slot serves no request: it never did, or it has answered its last one.
Free(p) == procs[p].pc \in {"idle", "done"}

\* The lowest free slot takes a request of `kind` with input `req`; `pc0` is
\* its first stage.  (Which worker serves a request makes no difference.)
Accept(p, kind, req, pc0) ==
    /\ Free(p)
    /\ \A q \in Procs : q < p => ~Free(q)
    /\ nreq < MaxReq
    /\ procs' = [procs EXCEPT ![p] = [Idle EXCEPT !.kind = kind, !.pc = pc0, !.req = req]]
    /\ nreq' = nreq + 1
    /\ snap' = Snapshot
    /\ UNCHANGED <<users, orders, payments, payment_total, err_ctr, hist>>

(* ---------------------------- user service ----------------------------- *)

\* session.get(User, id): the rows with that primary key.
UserRows(id) == {u \in users : u.id = id}

\* Variant: two columns land in each other's field.
UserBodySwapped(u) == [user_id |-> u.id, name |-> u.email, email |-> u.name, dob |-> u.dob, address |-> u.address]

\* The body get_user returns for a stored row.
UserBody(u) == [user_id |-> u.id, name |-> u.name, email |-> u.email, dob |-> u.dob, address |-> u.address]

\* Variant: the handler answers 200 for any id.
GetUserResponseAnyId(id) == Response(200, "", NoBody)

\* GET /users/{user_id}: the response of the handler.
GetUserResponse(id) ==
    IF UserRows(id) = {} THEN UserNotFound
    ELSE Response(200, "", UserBody(CHOOSE u \in UserRows(id) : TRUE))

\* GET /users/{user_id}: its error counter afterwards.
GetUserErrCtr(id, e) == IF UserRows(id) = {} THEN Inc(e, RouteUsersGet) ELSE e

\* GET /users/{user_id}: its histogram afterwards.
GetUserHist(id, h) == IF UserRows(id) = {} THEN h ELSE Inc(h, RouteUsersGet)

\* Variant: a call that timed out is taken as answered.
CallGetUserTimeoutAnswered(net, id) == IF net = "refused" THEN TransportError ELSE GetUserResponse(id)

\* requests.get(user-service/users/{id}, timeout=2) as the caller sees it.
CallGetUser(net, id) == IF net = "ok" THEN GetUserResponse(id) ELSE TransportError

\* The user service's error counter after that call: the handler ran unless
\* the call was refused.
CallGetUserErrCtr(net, id, e) == IF net = "refused" THEN e ELSE GetUserErrCtr(id, e)

CallGetUserHist(net, id, h) == IF net = "refused" THEN h ELSE GetUserHist(id, h)

\* The spans of that call: get_user's span starts and ends (line 79), by
\* its 404 when the user is not stored, unless the call was refused.
CallGetUserSpans(net, id, pr) ==
    IF net = "refused" THEN pr
    ELSE ExitSpan(StartHandlerSpan(pr, "user/get_user_lookup"), "user/get_user_lookup", UserRows(id) = {})

StartCreateUser(p) == \E u \in UserIn : Accept(p, "create_user", u, "create_user")

StartGetUser(p) == \E id \in UserIds : Accept(p, "get_user", [user_id |-> id], "get_user_lookup")

\* create_user, lines 66-70: look the id up; raise 400 when it is stored.
CreateUserCheck(p) ==
    LET pr == SetAttr(SetAttr(StartHandlerSpan(procs[p], "user/create_user"), "user/create_user", "user.id", procs[p].req.id), "user/create_user", "user.email", procs[p].req.email) IN
    /\ procs[p].kind = "create_user"
    /\ procs[p].pc = "create_user"
    /\ procs' = [procs EXCEPT ![p] =
            IF UserRows(pr.req.id) # {}
            THEN Finish(SetAttr(pr, "user/create_user", "user.exists", "True"), UserExists)
            ELSE [pr EXCEPT !.pc = "create_user_commit"]]
    /\ UNCHANGED <<users, orders, payments, payment_total, err_ctr, hist, nreq, snap>>

\* create_user, lines 71-74: add the row and commit.  The primary key makes
\* the commit fail when the id was stored meanwhile; nothing catches that.
CreateUserCommit(p) ==
    /\ procs[p].kind = "create_user"
    /\ procs[p].pc = "create_user_commit"
    /\ IF UserRows(procs[p].req.id) # {}
       THEN /\ procs' = [procs EXCEPT ![p] = Finish(@, InternalServerError)]
            /\ UNCHANGED users
       ELSE /\ users' = users \cup {procs[p].req}
            /\ procs' = [procs EXCEPT ![p] = Finish(@, Response(200, "", [status |-> "created"]))]
    /\ UNCHANGED <<orders, payments, payment_total, err_ctr, hist, nreq, snap>>

\* get_user, lines 78-98.
GetUser(p) ==
    LET id == procs[p].req.user_id
        pr == SetAttr(StartHandlerSpan(procs[p], "user/get_user_lookup"), "user/get_user_lookup", "user.id", id) IN
    /\ procs[p].kind = "get_user"
    /\ procs[p].pc = "get_user_lookup"
    /\ procs' = [procs EXCEPT ![p] =
            Finish(SetAttr(pr, "user/get_user_lookup", "user.found", IF UserRows(id) = {} THEN "False" ELSE "True"), GetUserResponse(id))]
    /\ err_ctr' = GetUserErrCtr(id, err_ctr)
    /\ hist' = GetUserHist(id, hist)
    /\ UNCHANGED <<users, orders, payments, payment_total, nreq, snap>>

(* --------------------------- orders service ---------------------------- *)

\* Variant: no stored row is ever found under an id.
OrderRowsNone(id) == {}

\* session.query(Order).filter(Order.id == id): the rows with that key.
OrderRows(id) == {o \in orders : o.id = id}

\* The Order row create_order builds from its input.
NewOrder(o) == [id |-> o.id, user_id |-> o.user_id, item |-> o.item, price |-> o.price, status |-> "pending"]

\* The body get_order_status returns for a stored row.
OrderStatusBody(o) == [order_id |-> o.id, user_id |-> o.user_id, status |-> o.status]

\* Variant: the owner's lookup does not decide the answer.
OrderStatusResponseUnchecked(o, user_resp) == Response(200, "", OrderStatusBody(o))

\* get_order_status, lines 204-221: the answer once the owner was looked up.
OrderStatusResponse(o, user_resp) ==
    IF CallFailed(user_resp) THEN UserNotFound ELSE Response(200, "", OrderStatusBody(o))

StartCreateOrder(p) == \E o \in OrderIn : Accept(p, "create_order", o, "validate_user_id")

StartGetOrderStatus(p) == \E id \in OrderIds : Accept(p, "get_order_status", [order_id |-> id], "get_order_status_lookup")

\* create_order, lines 137-157: validate the user with the user service.
CreateOrderValidateUser(p) ==
    LET req == procs[p].req
        pr0 == SetAttr(SetAttr(SetAttr(SetAttr(StartHandlerSpan(procs[p], "orders/create_order"), "orders/create_order", "order.id", req.id), "orders/create_order", "order.item", req.item), "orders/create_order", "order.price", ToString(req.price)), "orders/create_order", "user.id", req.user_id) IN
    /\ procs[p].kind = "create_order"
    /\ procs[p].pc = "validate_user_id"
    /\ \E net \in NetOutcomes :
        LET resp == CallGetUser(net, req.user_id)
            called == CallGetUserSpans(net, req.user_id, Called(StartSpan(pr0, "orders/validate_user_id"), "orders/validate_user_id"))
            pr == [called EXCEPT !.tf = @ \/ net # "ok"] IN
        /\ IF CallFailed(resp)
           THEN /\ procs' = [procs EXCEPT ![p] = Finish(SetStatusError(SetAttr(pr, "orders/validate_user_id", "user.found", "False"), "orders/validate_user_id"), OrdersInvalidUser)]
                /\ err_ctr' = Inc(CallGetUserErrCtr(net, req.user_id, err_ctr), RouteOrdersCreate)
           ELSE /\ procs' = [procs EXCEPT ![p] = [ExitSpan(SetAttr(pr, "orders/validate_user_id", "user.found", "True"), "orders/validate_user_id", FALSE) EXCEPT !.pc = "insert_order_db"]]
                /\ err_ctr' = CallGetUserErrCtr(net, req.user_id, err_ctr)
        /\ hist' = CallGetUserHist(net, req.user_id, hist)
    /\ UNCHANGED <<users, orders, payments, payment_total, nreq, snap>>

\* create_order, lines 159-183: insert the row; a failed commit (the id is
\* already stored) is caught and answered 500.
InsertOrderDb(p) ==
    LET req == procs[p].req
        pr == StartSpan(procs[p], "orders/insert_order_db") IN
    /\ procs[p].kind = "create_order"
    /\ procs[p].pc = "insert_order_db"
    /\ IF OrderRows(req.id) # {}
       THEN /\ procs' = [procs EXCEPT ![p] = Finish(SetStatusError(SetAttr(pr, "orders/insert_order_db", "db.insert.success", "False"), "orders/insert_order_db"), OrdersInsertFailed)]
            /\ err_ctr' = Inc(err_ctr, RouteOrdersCreate)
            /\ UNCHANGED <<orders, hist>>
       ELSE /\ orders' = orders \cup {NewOrder(req)}
            /\ procs' = [procs EXCEPT ![p] = Finish(SetAttr(pr, "orders/insert_order_db", "db.insert.success", "True"), Response(201, "", [message |-> "Order created", order_id |-> req.id]))]
            /\ hist' = Inc(hist, RouteOrdersCreate)
            /\ UNCHANGED err_ctr
    /\ UNCHANGED <<users, payments, payment_total, nreq, snap>>

StartGetOrders(p) == \E id \in UserIds : Accept(p, "get_orders", [user_id |-> id], "list_validate_user_id")

\* session.query(Order).filter(Order.user_id == user_id).all(), as the
\* handler lists it.
OrdersOfUser(user_id) == {[id |-> o.id, item |-> o.item, price |-> o.price, status |-> o.status] : o \in {x \in orders : x.user_id = user_id}}

\* get_orders, lines 83-99: validate the user with the user service and
\* keep its answer.
GetOrdersValidateUser(p) ==
    LET id == procs[p].req.user_id
        pr0 == SetAttr(StartHandlerSpan(procs[p], "orders/get_orders_for_user"), "orders/get_orders_for_user", "user.id", id) IN
    /\ procs[p].kind = "get_orders"
    /\ procs[p].pc = "list_validate_user_id"
    /\ \E net \in NetOutcomes :
        LET resp == CallGetUser(net, id)
            called == CallGetUserSpans(net, id, Called(StartSpan(pr0, "orders/validate_user_id"), "orders/validate_user_id"))
            pr == [called EXCEPT !.tf = @ \/ net # "ok"] IN
        /\ IF CallFailed(resp)
           THEN /\ procs' = [procs EXCEPT ![p] = Finish(SetStatusError(SetAttr(pr, "orders/validate_user_id", "user.found", "False"), "orders/validate_user_id"), UserNotFound)]
                /\ err_ctr' = Inc(CallGetUserErrCtr(net, id, err_ctr), RouteOrdersList)
           ELSE /\ procs' = [procs EXCEPT ![p] = [ExitSpan(SetAttr(pr, "orders/validate_user_id", "user.found", "True"), "orders/validate_user_id", FALSE) EXCEPT !.order_data = resp.body, !.pc = "query_orders_db"]]
                /\ err_ctr' = CallGetUserErrCtr(net, id, err_ctr)
        /\ hist' = CallGetUserHist(net, id, hist)
    /\ UNCHANGED <<users, orders, payments, payment_total, nreq, snap>>

\* get_orders, lines 101-129: list the user's orders; then random.random()
\* < 0.05 may raise an exception nothing catches.
GetOrdersQuery(p) ==
    LET id == procs[p].req.user_id
        listed == OrdersOfUser(id)
        pr == ExitSpan(SetAttr(StartSpan(procs[p], "orders/query_orders_db"), "orders/query_orders_db", "orders.count", ToString(Cardinality(listed))), "orders/query_orders_db", FALSE) IN
    /\ procs[p].kind = "get_orders"
    /\ procs[p].pc = "query_orders_db"
    /\ \E fault \in BOOLEAN :
        IF fault
        THEN /\ procs' = [procs EXCEPT ![p] = Finish(SetAttr(pr, "orders/get_orders_for_user", "simulated_failure", "True"), InternalServerError)]
             /\ err_ctr' = Inc(err_ctr, RouteOrdersList)
             /\ UNCHANGED hist
        ELSE /\ procs' = [procs EXCEPT ![p] = Finish(pr, Response(200, "", [user |-> procs[p].order_data, orders |-> listed]))]
             /\ hist' = Inc(hist, RouteOrdersList)
             /\ UNCHANGED err_ctr
    /\ UNCHANGED <<users, orders, payments, payment_total, nreq, snap>>

\* get_order_status, lines 191-201: look the order up.
GetOrderStatusLookup(p) ==
    LET id == procs[p].req.order_id
        pr == StartHandlerSpan(procs[p], "orders/validate_order_id") IN
    /\ procs[p].kind = "get_order_status"
    /\ procs[p].pc = "get_order_status_lookup"
    /\ IF OrderRows(id) = {}
       THEN /\ procs' = [procs EXCEPT ![p] = Finish(SetAttr(pr, "orders/validate_order_id", "order.found", "False"), OrderNotFound)]
            /\ err_ctr' = Inc(err_ctr, RouteOrdersStatus)
       ELSE /\ \E o \in OrderRows(id) :
                procs' = [procs EXCEPT ![p] = [SetAttr(SetAttr(pr, "orders/validate_order_id", "order.found", "True"), "orders/validate_order_id", "order.user_id", o.user_id) EXCEPT !.order = o, !.pc = "get_order_status_user"]]
            /\ UNCHANGED err_ctr
    /\ UNCHANGED <<users, orders, payments, payment_total, hist, nreq, snap>>

\* get_order_status, lines 203-221: validate the order's owner, then answer.
GetOrderStatusValidateUser(p) ==
    LET o == procs[p].order IN
    /\ procs[p].kind = "get_order_status"
    /\ procs[p].pc = "get_order_status_user"
    /\ \E net \in NetOutcomes :
        LET user_resp == CallGetUser(net, o.user_id)
            resp == OrderStatusResponse(o, user_resp)
            called == CallGetUserSpans(net, o.user_id, Called(procs[p], "orders/validate_order_id"))
            pr == [called EXCEPT !.tf = @ \/ net # "ok"] IN
        /\ procs' = [procs EXCEPT ![p] =
                IF CallFailed(user_resp)
                THEN Finish(SetStatusError(SetAttr(pr, "orders/validate_order_id", "user.found", "False"), "orders/validate_order_id"), resp)
                ELSE Finish(SetAttr(pr, "orders/validate_order_id", "user.found", "True"), resp)]
        /\ err_ctr' = CallGetUserErrCtr(net, o.user_id, err_ctr)
        /\ hist' = IF CallFailed(user_resp) THEN CallGetUserHist(net, o.user_id, hist)
                   ELSE Inc(CallGetUserHist(net, o.user_id, hist), RouteOrdersStatus)
    /\ UNCHANGED <<users, orders, payments, payment_total, nreq, snap>>

(* -------------------------- payments service --------------------------- *)

\* Variant: the filter compares the wrong column.
PaymentRowsByOrder(id) == {r \in payments : r.order_id = id}

\* session.query(Payment).filter(Payment.id == id): the rows with that key.
PaymentRows(id) == {r \in payments : r.id = id}

\* Variant: the query has no filter.
PaymentsOfAnyOrder(id) == payments

\* session.query(Payment).filter(Payment.order_id == id): any number of rows.
PaymentsOfOrder(id) == {r \in payments : r.order_id = id}

\* The Payment row create_payment builds from its input and the drawn status.
NewPayment(pay, status) == [id |-> pay.id, order_id |-> pay.order_id, user_id |-> pay.user_id, amount |-> pay.amount, status |-> status]

\* random.random() > 0.05 picks one of the two.
Statuses == {"Success", "Failed"}

\* Variant: the counter adds whatever amount it is given.
CounterAddSigned(c, amount) == c + amount

\* payment_total.add(amount, ...): the metrics SDK drops a negative amount
\* with a warning, a counter never goes down.
CounterAdd(c, amount) == IF amount < 0 THEN c ELSE c + amount

\* Variant: the amount is counted whatever the status.
TotalAfterAnyStatus(c, amount, status) == CounterAdd(c, amount)

\* create_payment, lines 138-141: the counter after the status was drawn.
TotalAfter(c, amount, status) == IF status = "Success" THEN CounterAdd(c, amount) ELSE c

StartCreatePayment(p) == \E pay \in PaymentIn : Accept(p, "create_payment", pay, "check_existing_payment")

StartGetPaymentStatus(p) == \E id \in OrderIds : Accept(p, "get_payment_status", [order_id |-> id], "get_payment_status")

\* create_payment, lines 84-98: step 1, the idempotency check.
CheckExistingPayment(p) ==
    LET req == procs[p].req
        pr0 == SetAttr(SetAttr(SetAttr(SetAttr(StartHandlerSpan(procs[p], "payments/create_payment"), "payments/create_payment", "payment.id", req.id), "payments/create_payment", "payment.amount", ToString(req.amount)), "payments/create_payment", "user.id", req.user_id), "payments/create_payment", "order.id", req.order_id)
        pr == StartSpan(BeginStep(pr0, 1), "payments/check_existing_payment") IN
    /\ procs[p].kind = "create_payment"
    /\ procs[p].pc = "check_existing_payment"
    /\ procs' = [procs EXCEPT ![p] =
            IF PaymentRows(req.id) # {}
            THEN Finish(SetAttr(pr, "payments/create_payment", "payment.duplicate", "True"), DuplicatePayment)
            ELSE [ExitSpan(pr, "payments/check_existing_payment", FALSE) EXCEPT !.pc = "validate_order_id"]]
    /\ UNCHANGED <<users, orders, payments, payment_total, err_ctr, hist, nreq, snap>>

\* create_payment, lines 100-112: step 2 calls the orders service, whose
\* handler (get_order_status, lines 191-201) first looks the order up.
ValidateOrderId(p) ==
    LET req == procs[p].req
        called == Called(StartSpan(BeginStep(procs[p], 2), "payments/validate_order_id"), "payments/validate_order_id")
        handler == StartHandlerSpan(called, "orders/validate_order_id")
        not_found == ExitSpan(handler, "orders/validate_order_id", TRUE) IN
    /\ procs[p].kind = "create_payment"
    /\ procs[p].pc = "validate_order_id"
    /\ \E net \in NetOutcomes :
        \/ /\ net = "refused"
           /\ procs' = [procs EXCEPT ![p] = [Finish(SetStatusError(SetAttr(called, "payments/validate_order_id", "order.found", "False"), "payments/validate_order_id"), InvalidOrder) EXCEPT !.tf = TRUE]]
           /\ UNCHANGED err_ctr
        \/ /\ net # "refused"
           /\ OrderRows(req.order_id) = {}
           /\ procs' = [procs EXCEPT ![p] = [Finish(SetStatusError(SetAttr(not_found, "payments/validate_order_id", "order.found", "False"), "payments/validate_order_id"), InvalidOrder) EXCEPT !.tf = @ \/ net # "ok"]]
           /\ err_ctr' = Inc(err_ctr, RouteOrdersStatus)
        \/ /\ net = "ok"
           /\ \E o \in OrderRows(req.order_id) :
                procs' = [procs EXCEPT ![p] = [handler EXCEPT !.order = o, !.pc = "validate_order_id_user"]]
           /\ UNCHANGED err_ctr
    /\ UNCHANGED <<users, orders, payments, payment_total, hist, nreq, snap>>

\* Step 2 continued: the orders handler validates the order's owner with the
\* user service (lines 203-221) and its answer reaches create_payment.
ValidateOrderIdUser(p) ==
    LET o == procs[p].order IN
    /\ procs[p].kind = "create_payment"
    /\ procs[p].pc = "validate_order_id_user"
    /\ \E net2 \in NetOutcomes, net \in {"ok", "timeout"} :
        LET user_resp == CallGetUser(net2, o.user_id)
            handler_resp == OrderStatusResponse(o, user_resp)
            order_resp == IF net = "ok" THEN handler_resp ELSE TransportError
            called == CallGetUserSpans(net2, o.user_id, Called(procs[p], "orders/validate_order_id"))
            handled == IF CallFailed(user_resp)
                       THEN ExitSpan(SetStatusError(called, "orders/validate_order_id"), "orders/validate_order_id", TRUE)
                       ELSE ExitSpan(called, "orders/validate_order_id", FALSE)
            pr == [handled EXCEPT !.tf = @ \/ net # "ok" \/ net2 # "ok"] IN
        /\ procs' = [procs EXCEPT ![p] =
                IF CallFailed(order_resp)
                THEN Finish(SetStatusError(SetAttr(pr, "payments/validate_order_id", "order.found", "False"), "payments/validate_order_id"), InvalidOrder)
                ELSE [ExitSpan(SetAttr(pr, "payments/validate_order_id", "order.found", "True"), "payments/validate_order_id", FALSE) EXCEPT !.order_data = order_resp.body, !.pc = "check_order_user_match"]]
        /\ err_ctr' = CallGetUserErrCtr(net2, o.user_id, err_ctr)
        /\ hist' = IF CallFailed(user_resp) THEN CallGetUserHist(net2, o.user_id, hist)
                   ELSE Inc(CallGetUserHist(net2, o.user_id, hist), RouteOrdersStatus)
    /\ UNCHANGED <<users, orders, payments, payment_total, nreq, snap>>

\* Variant: the comparison never fires.
OwnerMismatchNever(order_data, req) == FALSE

\* Variant: the comparison is inverted.
OwnerMismatchInverted(order_data, req) == order_data.user_id = req.user_id

\* order_data["user_id"] != payment.user_id
OwnerMismatch(order_data, req) == order_data.user_id # req.user_id

\* create_payment, lines 114-121: step 3, the ownership check.
CheckOrderUserMatch(p) ==
    LET pr == StartSpan(BeginStep(procs[p], 3), "payments/check_order_user_match") IN
    /\ procs[p].kind = "create_payment"
    /\ procs[p].pc = "check_order_user_match"
    /\ procs' = [procs EXCEPT ![p] =
            IF OwnerMismatch(pr.order_data, pr.req)
            THEN Finish(SetAttr(SetStatusError(pr, "payments/check_order_user_match"), "payments/check_order_user_match", "order.user.mismatch", "True"), OwnershipMismatch)
            ELSE [ExitSpan(SetAttr(pr, "payments/check_order_user_match", "order.user.mismatch", "False"), "payments/check_order_user_match", FALSE) EXCEPT !.pc = "validate_user"]]
    /\ UNCHANGED <<users, orders, payments, payment_total, err_ctr, hist, nreq, snap>>

\* create_payment, lines 123-134: step 4 calls the user service.
ValidateUser(p) ==
    LET req == procs[p].req IN
    /\ procs[p].kind = "create_payment"
    /\ procs[p].pc = "validate_user"
    /\ \E net \in NetOutcomes :
        LET resp == CallGetUser(net, req.user_id)
            called == CallGetUserSpans(net, req.user_id, Called(StartSpan(BeginStep(procs[p], 4), "payments/validate_user"), "payments/validate_user"))
            pr == [called EXCEPT !.tf = @ \/ net # "ok"] IN
        /\ procs' = [procs EXCEPT ![p] =
                IF CallFailed(resp)
                THEN Finish(SetStatusError(SetAttr(pr, "payments/validate_user", "user.found", "False"), "payments/validate_user"), InvalidUser)
                ELSE [ExitSpan(SetAttr(pr, "payments/validate_user", "user.found", "True"), "payments/validate_user", FALSE) EXCEPT !.pc = "simulate_processing"]]
        /\ err_ctr' = CallGetUserErrCtr(net, req.user_id, err_ctr)
        /\ hist' = CallGetUserHist(net, req.user_id, hist)
    /\ UNCHANGED <<users, orders, payments, payment_total, nreq, snap>>

\* create_payment, lines 136-141: step 5 draws the outcome and counts it.
SimulateProcessing(p) ==
    /\ procs[p].kind = "create_payment"
    /\ procs[p].pc = "simulate_processing"
    /\ \E status \in Statuses :
        /\ procs' = [procs EXCEPT ![p] = [SetAttr(BeginStep(@, 5), "payments/create_payment", "payment.status", status) EXCEPT !.status = status, !.pc = "insert_payment_db"]]
        /\ payment_total' = TotalAfter(payment_total, procs[p].req.amount, status)
    /\ UNCHANGED <<users, orders, payments, err_ctr, hist, nreq, snap>>

\* Variant: the insert replaces a stored row of the same id.
InsertPaymentUpsert(rows, row) == {r \in rows : r.id # row.id} \cup {row}

\* session.add(new_payment); session.commit(): the primary key rejects a
\* second row with a stored id.
InsertPayment(rows, row) == IF \E r \in rows : r.id = row.id THEN rows ELSE rows \cup {row}

\* create_payment, lines 143-157: step 6 inserts the row.  A rejected
\* commit raises out of the handler; nothing catches it.
InsertPaymentDb(p) ==
    LET req == procs[p].req
        row == NewPayment(req, procs[p].status)
        pr == StartSpan(BeginStep(procs[p], 6), "payments/insert_payment_db") IN
    /\ procs[p].kind = "create_payment"
    /\ procs[p].pc = "insert_payment_db"
    /\ payments' = InsertPayment(payments, row)
    /\ IF PaymentRows(req.id) # {}
       THEN /\ procs' = [procs EXCEPT ![p] = Finish(pr, InternalServerError)]
            /\ UNCHANGED hist
       ELSE /\ procs' = [procs EXCEPT ![p] = Finish(pr, Response(200, "", [message |-> "Processed", status |-> procs[p].status, payment_id |-> req.id]))]
            /\ hist' = Inc(hist, RoutePaymentsCreate)
    /\ UNCHANGED <<users, orders, payment_total, err_ctr, nreq, snap>>

\* The body get_payment_status returns for the row `.first()` gave it.
PaymentStatusBody(order_id, r) == [order_id |-> order_id, status |-> r.status, payment_id |-> r.id, amount |-> r.amount]

NotPaid(order_id) == [order_id |-> order_id, status |-> "Not Paid"]

\* get_payment_status, lines 165-184.  Without ORDER BY, .first() may give
\* any of the rows of that order.
GetPaymentStatus(p) ==
    LET id == procs[p].req.order_id
        pr == StartHandlerSpan(procs[p], "payments/get_payment_status") IN
    /\ procs[p].kind = "get_payment_status"
    /\ procs[p].pc = "get_payment_status"
    /\ IF PaymentsOfOrder(id) = {}
       THEN procs' = [procs EXCEPT ![p] = Finish(pr, Response(200, "", NotPaid(id)))]
       ELSE \E r \in PaymentsOfOrder(id) :
                procs' = [procs EXCEPT ![p] = Finish(pr, Response(200, "", PaymentStatusBody(id, r)))]
    /\ hist' = Inc(hist, RoutePaymentsStatus)
    /\ UNCHANGED <<users, orders, payments, payment_total, err_ctr, nreq, snap>>

(* --------------------------- specification ----------------------------- *)

\* The tables outlive the processes: the services start on an empty database
\* or on one that earlier requests filled (a user and an order of theirs).
SeedUser == [id |-> "u1", name |-> "Ann", email |-> "a@x", dob |-> "2000-01-01", address |-> "1 Main St"]

SeedOrder == [id |-> "o1", user_id |-> "u1", item |-> "book", price |-> 5, status |-> "pending"]

Init ==
    /\ \/ users = {} /\ orders = {}
       \/ users = {SeedUser} /\ orders = {SeedOrder}
    /\ payments = {}
    /\ payment_total = 0
    /\ err_ctr = [r \in Routes |-> 0]
    /\ hist = [r \in Routes |-> 0]
    /\ procs = [p \in Procs |-> Idle]
    /\ nreq = 0
    /\ snap = [users |-> users, orders |-> orders, payments |-> {}, payment_total |-> 0, err_ctr |-> [r \in Routes |-> 0]]

\* A request arrives at one of the services.
Start(p) ==
    \/ StartCreateUser(p)
    \/ StartGetUser(p)
    \/ StartCreateOrder(p)
    \/ StartGetOrders(p)
    \/ StartGetOrderStatus(p)
    \/ StartCreatePayment(p)
    \/ StartGetPaymentStatus(p)

\* A request in flight runs its next stage.
Step(p) ==
    \/ CreateUserCheck(p)
    \/ CreateUserCommit(p)
    \/ GetUser(p)
    \/ CreateOrderValidateUser(p)
    \/ InsertOrderDb(p)
    \/ GetOrdersValidateUser(p)
    \/ GetOrdersQuery(p)
    \/ GetOrderStatusLookup(p)
    \/ GetOrderStatusValidateUser(p)
    \/ CheckExistingPayment(p)
    \/ ValidateOrderId(p)
    \/ ValidateOrderIdUser(p)
    \/ CheckOrderUserMatch(p)
    \/ ValidateUser(p)
    \/ SimulateProcessing(p)
    \/ InsertPaymentDb(p)
    \/ GetPaymentStatus(p)

Next == \E p \in Procs : Start(p) \/ Step(p)

\* Requests handled concurrently by the worker slots.
Spec == Init /\ [][Next]_vars

\* Concurrent requests, each handler running on: its code is straight-line,
\* every requests.get carries timeout=2 and the sleep of step 5 is bounded,
\* so a request in flight always takes its next step.
SpecFair == Init /\ [][Next]_vars /\ \A p \in Procs : WF_vars(Step(p))

AllIdle == \A q \in Procs : Free(q)

NextSeq == \E p \in Procs : (AllIdle /\ Start(p)) \/ Step(p)

\* Requests handled one after the other.
SpecSeq == Init /\ [][NextSeq]_vars

(* ------------------------------ properties ----------------------------- *)

\* Slot p has answered a request of `kind`.
Answered(p, kind) == procs[p].kind = kind /\ procs[p].pc = "done"

\* When the request was accepted no payment had its id, its order was stored
\* and owned by its user, and its user was stored.
FreshValidPayment(req) ==
    /\ \A r \in snap.payments : r.id # req.id
    /\ \E o \in snap.orders : o.id = req.order_id /\ o.user_id = req.user_id
    /\ \E u \in snap.users : u.id = req.user_id

C2_DuplicateChangesNothing ==
    \A p \in Procs :
        (Answered(p, "create_payment") /\ \E r \in snap.payments : r.id = procs[p].req.id)
        => /\ procs[p].result.code = 400
           /\ procs[p].result.detail = "Payment ID already exists"
           /\ payments = snap.payments
           /\ users = snap.users
           /\ orders = snap.orders
           /\ payment_total = snap.payment_total
           /\ err_ctr = snap.err_ctr

\* C2 witness: a second request reused a stored id with other fields.
C2_Witness ==
    \E p \in Procs :
        /\ Answered(p, "create_payment")
        /\ \E r \in snap.payments : r.id = procs[p].req.id /\ r.amount # procs[p].req.amount
        /\ procs[p].result.code = 400

\* C3: no payment id is ever stored twice, and a create_payment that got as
\* far as the insert and ended in an error ended in DuplicatePayment
\* (400 "Payment ID already exists").
C3_InsertLoserIsDuplicate ==
    /\ \A id \in PaymentIds : Cardinality({r \in payments : r.id = id}) <= 1
    /\ \A p \in Procs :
        (Answered(p, "create_payment") /\ procs[p].status \in {"Success", "Failed"} /\ procs[p].result.code # 200)
        => (procs[p].result.code = 400 /\ procs[p].result.detail = "Payment ID already exists")

\* C3 witness of the race: two requests with one id are both past the
\* idempotency check and neither has inserted yet.
C3_RaceReached ==
    \E p, q \in Procs :
        /\ p # q
        /\ procs[p].kind = "create_payment" /\ procs[q].kind = "create_payment"
        /\ procs[p].req.id = procs[q].req.id
        /\ procs[p].pc = "insert_payment_db" /\ procs[q].pc = "insert_payment_db"

\* C4: every stored Payment with status Success has a stored Order with its
\* order_id and its user_id, and a stored User with its user_id.
C4_SuccessPaymentHasOrderAndUser ==
    \A r \in payments :
        r.status = "Success" =>
            /\ \E o \in orders : o.id = r.order_id /\ o.user_id = r.user_id
            /\ \E u \in users : u.id = r.user_id

\* C4 witness: a Success payment is stored while another request is served.
C4_Witness ==
    /\ \E r \in payments : r.status = "Success"
    /\ \E p \in Procs : ~Free(p)

\* When the request was accepted its order was stored with another owner.
OrderOfAnotherUser(req) == \E o \in snap.orders : o.id = req.order_id /\ o.user_id # req.user_id

\* C5 as stated: every create_payment whose order is recorded for another
\* user is answered 400 "Order does not belong to user" with
\* order.user.mismatch=true, and no Payment row is written.
C5_MismatchAlwaysOwnershipMismatch ==
    \A p \in Procs :
        (Answered(p, "create_payment") /\ OrderOfAnotherUser(procs[p].req))
        => /\ procs[p].result.code = 400
           /\ procs[p].result.detail = "Order does not belong to user"
           /\ <<"payments/check_order_user_match", "order.user.mismatch", "True">> \in procs[p].attrs
           /\ payments = snap.payments

\* C5 amended: a create_payment whose order is recorded for another user
\* writes no Payment row; when moreover its id is not yet stored and no
\* remote call of it fails, it is answered 400 "Order does not belong to user"
\* with order.user.mismatch=true.
C5_MismatchAfterValidOrder ==
    \A p \in Procs :
        (Answered(p, "create_payment") /\ OrderOfAnotherUser(procs[p].req))
        => /\ payments = snap.payments
           /\ ((\A r \in snap.payments : r.id # procs[p].req.id) /\ ~procs[p].tf)
              => /\ procs[p].result.code = 400
                 /\ procs[p].result.detail = "Order does not belong to user"
                 /\ <<"payments/check_order_user_match", "order.user.mismatch", "True">> \in procs[p].attrs

\* C5 witness: a request for another user's order was refused at step 3.
C5_Witness ==
    \E p \in Procs :
        /\ Answered(p, "create_payment") /\ OrderOfAnotherUser(procs[p].req)
        /\ procs[p].result.detail = "Order does not belong to user"

\* C6: a create_payment with a fresh id whose order_id names no stored Order
\* is answered 404 "Invalid order ID", writes no Payment row and adds exactly
\* 1 to the error counter of the payments-create route.
C6_InvalidOrderCountsOneError ==
    \A p \in Procs :
        (/\ Answered(p, "create_payment")
         /\ \A r \in snap.payments : r.id # procs[p].req.id
         /\ \A o \in snap.orders : o.id # procs[p].req.order_id)
        => /\ procs[p].result.code = 404
           /\ procs[p].result.detail = "Invalid order ID"
           /\ payments = snap.payments
           /\ err_ctr["payments-service /payments"] = snap.err_ctr["payments-service /payments"] + 1

\* C7: the get_payment_status step always answers 200; the body is the
\* "Not Paid" sentinel exactly when no Payment row has the order_id, and
\* otherwise carries the status, id and amount of a stored row of that
\* order; the three tables are left as they were.
C7_PaymentStatusLookup ==
    [][\A p \in Procs :
        (procs[p].kind = "get_payment_status" /\ procs[p].pc = "get_payment_status" /\ procs'[p] # procs[p])
        => LET id == procs[p].req.order_id
               res == procs'[p].result IN
           /\ procs'[p].pc = "done"
           /\ res.code = 200
           /\ (res.body = [order_id |-> id, status |-> "Not Paid"]) <=> (\A r \in payments : r.order_id # id)
           /\ (res.body # [order_id |-> id, status |-> "Not Paid"])
              => \E r \in payments :
                    /\ r.order_id = id
                    /\ res.body = [order_id |-> id, status |-> r.status, payment_id |-> r.id, amount |-> r.amount]
           /\ UNCHANGED <<users, orders, payments>>]_vars

\* C7 witness: a lookup answered "Not Paid" for one order while a payment of
\* another order is stored.
C7_Witness ==
    \E p \in Procs :
        /\ Answered(p, "get_payment_status")
        /\ procs[p].result.body = [order_id |-> procs[p].req.order_id, status |-> "Not Paid"]
        /\ payments # {}

\* C8: a create_user that answers 200 has stored a row with exactly its five
\* fields; stored user rows are never changed or removed and no id is stored
\* twice; and a get_user on a stored id answers 200 with exactly the five
\* fields of the stored row.
C8_UserRoundTrip ==
    [][/\ \A u \in users : u \in users'
       /\ \A u, v \in users' : u.id = v.id => u = v
       /\ \A p \in Procs :
            /\ (procs[p].kind = "create_user" /\ procs'[p].pc = "done" /\ procs[p].pc # "done" /\ procs'[p].result.code = 200)
               => \E u \in users' :
                    /\ u.id = procs[p].req.id /\ u.name = procs[p].req.name /\ u.email = procs[p].req.email
                    /\ u.dob = procs[p].req.dob /\ u.address = procs[p].req.address
            /\ (procs[p].kind = "get_user" /\ procs[p].pc = "get_user_lookup" /\ procs'[p] # procs[p])
               => \A u \in users :
                    u.id = procs[p].req.user_id =>
                        /\ procs'[p].pc = "done"
                        /\ procs'[p].result.code = 200
                        /\ procs'[p].result.body = [user_id |-> u.id, name |-> u.name, email |-> u.email, dob |-> u.dob, address |-> u.address]]_vars

\* C8 witness: get_user has answered with the fields of a user that
\* create_user stored in this run (the database started without u2).
C8_Witness ==
    \E p \in Procs :
        /\ Answered(p, "get_user")
        /\ procs[p].req.user_id = "u2"
        /\ procs[p].result.code = 200
        /\ procs[p].result.body.name = "Bob"

\* C9: the validation stage of create_order stores nothing; when the user
\* is not stored or the call to the user service fails in transport, the
\* request ends there with 400 "Invalid user ID", otherwise it goes on to
\* the insert.  An insert that answers 201 has added exactly one row, with
\* the supplied id, user_id, item and price and status "pending", and it is
\* the only row with that id.
C9_CreateOrderValidatesUser ==
    [][\A p \in Procs :
        (procs[p].kind = "create_order" /\ procs'[p] # procs[p])
        => LET req == procs[p].req
               row == [id |-> req.id, user_id |-> req.user_id, item |-> req.item, price |-> req.price, status |-> "pending"] IN
           /\ procs[p].pc = "validate_user_id"
              => /\ orders' = orders
                 /\ IF (\A u \in users : u.id # req.user_id) \/ procs'[p].tf
                    THEN /\ procs'[p].pc = "done"
                         /\ procs'[p].result.code = 400
                         /\ procs'[p].result.detail = "Invalid user ID"
                    ELSE procs'[p].pc = "insert_order_db"
           /\ (procs[p].pc = "insert_order_db" /\ procs'[p].result.code = 201)
              => /\ row \notin orders
                 /\ orders' = orders \cup {row}
                 /\ \A o \in orders' : o.id = req.id => o = row
           /\ (procs[p].pc = "insert_order_db" /\ procs'[p].result.code # 201)
              => orders' = orders]_vars

\* C9 witness: a create_order for a user that is not stored was answered
\* 400 and no order has its id.
C9_Witness ==
    \E p \in Procs :
        /\ Answered(p, "create_order")
        /\ \A u \in users : u.id # procs[p].req.user_id
        /\ procs[p].result.code = 400
        /\ \A o \in orders : o.id # procs[p].req.id

\* C10: get_order_status answers 404 when no Order has the id; when the row
\* is stored it answers 404 if the lookup of the order's owner fails (the
\* user is not stored, or the call fails in transport) and otherwise 200
\* with the order's id, user_id and status.
C10_OrderStatusNeedsOwner ==
    [][\A p \in Procs :
        (procs[p].kind = "get_order_status" /\ procs'[p] # procs[p])
        => LET id == procs[p].req.order_id
               o == procs[p].order
               res == procs'[p].result IN
           /\ procs[p].pc = "get_order_status_lookup"
              => IF \A r \in orders : r.id # id
                 THEN procs'[p].pc = "done" /\ res.code = 404
                 ELSE /\ procs'[p].pc = "get_order_status_user"
                      /\ procs'[p].order \in orders
                      /\ procs'[p].order.id = id
           /\ procs[p].pc = "get_order_status_user"
              => /\ procs'[p].pc = "done"
                 /\ IF (\A u \in users : u.id # o.user_id) \/ procs'[p].tf
                    THEN res.code = 404
                    ELSE /\ res.code = 200
                         /\ res.body = [order_id |-> o.id, user_id |-> o.user_id, status |-> o.status]]_vars

\* C10 witness: the order is stored and the request was still answered 404,
\* its owner's lookup having failed.
C10_Witness ==
    \E p \in Procs :
        /\ Answered(p, "get_order_status")
        /\ \E o \in orders : o.id = procs[p].req.order_id
        /\ procs[p].order \in orders
        /\ procs[p].result.code = 404

\* C11: create_user answers 400 "User already exists" whenever the id is
\* stored when it acts, also when a concurrent create_user of the same id
\* stored it first, and then leaves the stored row as it was; otherwise it
\* stores the row and answers success.
C11_CreateUserConflictOrCreated ==
    [][\A p \in Procs :
        (procs[p].kind = "create_user" /\ ~Free(p) /\ procs'[p].pc = "done")
        => IF UserRows(procs[p].req.id) # {}
           THEN procs'[p].result = UserExists /\ users' = users
           ELSE /\ procs'[p].result = Response(200, "", [status |-> "created"])
                /\ users' = users \cup {procs[p].req}]_vars

\* Two create_user requests of one id passed the lookup together and the
\* second commit was rejected.
C11_RaceReached ==
    \E p \in Procs :
        /\ Answered(p, "create_user")
        /\ procs[p].result = InternalServerError
        /\ UserRows(procs[p].req.id) # {}

\* The spans a create_payment request started directly under its span
\* create_payment.
StageSpans(pr) == SelectSeq(pr.spans, LAMBDA s : s.parent = "payments/create_payment")

\* Steps 1 to 4 of the request all ran and none raised.
ChecksPassed(pr) ==
    /\ <<"payments/create_payment", "payment.duplicate", "True">> \notin pr.attrs
    /\ <<"payments/validate_order_id", "order.found", "True">> \in pr.attrs
    /\ <<"payments/check_order_user_match", "order.user.mismatch", "False">> \in pr.attrs
    /\ <<"payments/validate_user", "user.found", "True">> \in pr.attrs

\* C12: the steps a create_payment request has run are, in order, a prefix
\* of idempotency check (1), order validation (2), ownership check (3), user
\* validation (4), outcome simulation (5), persistence (6); a request that
\* failed ran nothing after the failing step; every step it ran started one
\* span; the insert runs only when the four checks passed.
C12_StagesInOrderOneSpanEach ==
    \A p \in Procs :
        procs[p].kind = "create_payment"
        => LET pr == procs[p] IN
           /\ \A i \in 1..Len(pr.steps) : pr.steps[i] = i
           /\ Len(pr.steps) <= 6
           /\ Len(StageSpans(pr)) = Len(pr.steps)
           /\ (6 \in {pr.steps[i] : i \in 1..Len(pr.steps)}) => ChecksPassed(pr)
           /\ (pr.pc = "done" /\ pr.result.code = 200) => Len(pr.steps) = 6

\* The sum of amount over the rows of S.
RECURSIVE SumAmounts(_)
SumAmounts(S) ==
    IF S = {} THEN 0
    ELSE LET r == CHOOSE x \in S : TRUE IN r.amount + SumAmounts(S \ {r})

\* C13: a create_payment that ends in an error adds nothing to the
\* payments-total, so whenever no request is in flight the payments-total
\* is the sum of amount over the stored payments of status Success (amounts
\* being non-negative, as the data model has them).
C13_TotalIsSumOfSuccessPayments ==
    (AllIdle /\ \A r \in payments : r.amount >= 0)
    => payment_total = SumAmounts({r \in payments : r.status = "Success"})

\* The loser of a same-id race had drawn Success for a positive amount
\* before its insert was rejected.
C13_LoserCounted ==
    \E p \in Procs :
        /\ Answered(p, "create_payment")
        /\ procs[p].result = InternalServerError
        /\ procs[p].status = "Success"
        /\ procs[p].req.amount > 0
        /\ AllIdle

\* Where `name` comes first in the sequence of names (0: nowhere).
Pos(names, name) ==
    IF \E i \in 1..Len(names) : names[i] = name
    THEN CHOOSE i \in 1..Len(names) : names[i] = name /\ \A j \in 1..(i - 1) : names[j] # name
    ELSE 0

\* The spans on which the code recorded the failure of their step.
FailureAttrs ==
    {<<"payments/validate_order_id", "order.found", "False">>,
     <<"payments/check_order_user_match", "order.user.mismatch", "True">>,
     <<"payments/validate_user", "user.found", "False">>,
     <<"orders/validate_user_id", "user.found", "False">>,
     <<"orders/insert_order_db", "db.insert.success", "False">>,
     <<"orders/validate_order_id", "order.found", "False">>,
     <<"orders/validate_order_id", "user.found", "False">>}

\* C14: in every service, when a request has returned or raised every span
\* it started is ended; a span ends before the span it is nested in; a
\* span an exception passed through, and so the span of a step that failed,
\* is ended with status error once the request is answered; every span
\* started inside a handler has the handler's outermost span as parent.
C14_SpanDiscipline ==
    \A p \in Procs :
        LET pr == procs[p]
            n == Len(pr.spans) IN
        /\ \A i \in 1..n :
            LET s == pr.spans[i] IN
            /\ s.parent # "" => /\ s.parent = pr.spans[1].name
                                /\ pr.spans[1].parent = ""
                                /\ (~s.open => Pos(pr.ended, s.name) > 0)
                                /\ (Pos(pr.ended, s.parent) > 0
                                    => /\ Pos(pr.ended, s.name) > 0
                                       /\ Pos(pr.ended, s.name) < Pos(pr.ended, s.parent))
            /\ s.exc => s.status = "ERROR" /\ ~s.open
        /\ pr.pc = "done"
           => /\ \A i \in 1..n : ~pr.spans[i].open
              /\ Len(pr.ended) = n
              /\ n > 0
              /\ pr.result.code >= 400 => pr.spans[1].status = "ERROR"
              /\ \A a \in pr.attrs \cap FailureAttrs :
                    \E i \in 1..n : pr.spans[i].name = a[1] /\ pr.spans[i].status = "ERROR"

\* A create_payment failed in its fourth step, after three steps whose
\* spans had ended, and was answered.
C14_Witness ==
    \E p \in Procs :
        /\ Answered(p, "create_payment")
        /\ procs[p].result = InvalidUser
        /\ Len(procs[p].spans) >= 6
        /\ \E i \in 1..Len(procs[p].spans) :
            /\ procs[p].spans[i].name = "payments/validate_user"
            /\ procs[p].spans[i].exc

\* The route a request of `kind` is counted under.
RouteOf(kind) ==
    CASE kind = "create_user" -> "user-service /users"
      [] kind = "get_user" -> RouteUsersGet
      [] kind = "create_order" -> RouteOrdersCreate
      [] kind = "get_orders" -> RouteOrdersList
      [] kind = "get_order_status" -> RouteOrdersStatus
      [] kind = "create_payment" -> RoutePaymentsCreate
      [] kind = "get_payment_status" -> RoutePaymentsStatus

\* The value of the error counter labelled r (zero while never incremented).
ErrCount(e, r) == IF r \in DOMAIN e THEN e[r] ELSE 0

\* C15: in all three services a request answered with an error has
\* incremented the error counter of its route by exactly 1, and a request
\* answered with success has incremented no error counter.
C15_ErrorCountedOncePerFailedRequest ==
    \A p \in Procs :
        (procs[p].pc = "done" /\ AllIdle)
        => IF procs[p].result.code >= 400
           THEN ErrCount(err_ctr, RouteOf(procs[p].kind)) = ErrCount(snap.err_ctr, RouteOf(procs[p].kind)) + 1
           ELSE err_ctr = snap.err_ctr

\* The error a request of `kind` answers when the remote call of its stage
\* `pc` fails.
StageError(kind, pc) ==
    CASE kind = "create_payment" /\ pc \in {"validate_order_id", "validate_order_id_user"} -> InvalidOrder
      [] kind = "create_payment" /\ pc = "validate_user" -> InvalidUser
      [] kind = "create_order" /\ pc = "validate_user_id" -> OrdersInvalidUser
      [] kind = "get_orders" /\ pc = "list_validate_user_id" -> UserNotFound
      [] kind = "get_order_status" /\ pc = "get_order_status_user" -> UserNotFound

\* The entity the remote call of stage `pc` asks for is not stored.
Rejected(pr) ==
    CASE pr.pc = "validate_order_id" -> OrderRows(pr.req.order_id) = {}
      [] pr.pc \in {"validate_order_id_user", "get_order_status_user"} -> UserRows(pr.order.user_id) = {}
      [] OTHER -> UserRows(pr.req.user_id) = {}

\* C16: a stage issues at most one remote call (no retry); a call that
\* fails, by refusal, timeout or rejection, fails its stage at once; and
\* the caller sees the same error whether the transport failed or the peer
\* rejected: InvalidOrder in step 2 and InvalidUser in step 4 of
\* create_payment, InvalidUser in create_order, NotFound in
\* get_order_status and get_orders_for_user.
C16_OneCallFailFastSameError ==
    [][\A p \in Procs :
        (~Free(p) /\ Len(procs'[p].calls) # Len(procs[p].calls))
        => LET pr == procs[p]
               after == procs'[p] IN
           /\ Len(after.calls) = Len(pr.calls) + 1
           /\ \A i, j \in 1..Len(after.calls) : after.calls[i] = after.calls[j] => i = j
           /\ (after.tf \/ Rejected(pr))
              => /\ after.pc = "done"
                 /\ after.result = StageError(pr.kind, pr.pc)
                 /\ UNCHANGED <<users, orders, payments, payment_total>>
           /\ after.pc = "done" => after.result = StageError(pr.kind, pr.pc) \/ after.result.code < 400]_vars

\* One create_payment failed its order validation on a transport failure
\* and another on the orders service's rejection; both got InvalidOrder.
C16_Witness ==
    /\ Answered(1, "create_payment") /\ procs[1].result = InvalidOrder /\ procs[1].tf
    /\ Answered(2, "create_payment") /\ procs[2].result = InvalidOrder /\ ~procs[2].tf

\* C17: no step of create_payment or get_payment_status changes a stored
\* Order or User; get_payment_status leaves the Payment store as it is and
\* create_payment changes it only by adding the one row keyed by the
\* request's id.
C17_PaymentsFrame ==
    [][\A p \in Procs :
        (~Free(p) /\ procs[p].kind \in {"create_payment", "get_payment_status"} /\ procs'[p] # procs[p])
        => /\ users' = users
           /\ orders' = orders
           /\ procs[p].kind = "get_payment_status" => payments' = payments
           /\ procs[p].kind = "create_payment"
              => /\ payments \subseteq payments'
                 /\ Cardinality(payments' \ payments) <= 1
                 /\ \A r \in payments' \ payments : r.id = procs[p].req.id]_vars

\* A create_payment stored its row while users and orders were there to be
\* kept, and a create_payment met a stored row of its id at the insert.
C17_Witness ==
    /\ users # {} /\ orders # {}
    /\ \E p \in Procs :
        /\ Answered(p, "create_payment")
        /\ procs[p].result.code = 200
        /\ PaymentRows(procs[p].req.id) # {}
    /\ \E p \in Procs :
        /\ Answered(p, "create_payment")
        /\ procs[p].result = InternalServerError

\* C18: no step makes the payments-total or an error counter smaller,
\* whatever amount a create_payment carries; no step resets them.
C18_CountersNeverDecrease ==
    [][/\ payment_total' >= payment_total
       /\ \A r \in Routes : err_ctr'[r] >= err_ctr[r]]_vars

\* A payment of negative amount was processed with status Success, and an
\* error counter has counted a failure.
C18_Witness ==
    /\ \E r \in payments : r.status = "Success" /\ r.amount < 0
    /\ \E r \in Routes : err_ctr[r] > 0

\* C19: the user_id of every stored Order is the id of a stored User.
C19_OrderOwnerStored == \A o \in orders : UserRows(o.user_id) # {}

\* A create_order stored its row.
C19_Witness ==
    \E p \in Procs :
        /\ Answered(p, "create_order")
        /\ procs[p].result.code = 201
        /\ NewOrder(procs[p].req) \in orders
        /\ NewOrder(procs[p].req) # SeedOrder

\* An Order of the id of the create_order request in slot p is stored.
OrderIdStored(p) == \E o \in orders : o.id = procs[p].req.id

\* C20 as stated: a create_order whose id is already stored, when it is
\* answered, is answered 500 "Database insert failed", has added 1 to the
\* error counter of /orders and has left the orders as they were.
C20_StoredIdAlwaysInsertFailed ==
    [][\A p \in Procs :
        (~Free(p) /\ procs[p].kind = "create_order" /\ procs'[p].pc = "done" /\ OrderIdStored(p))
        => /\ procs'[p].result = OrdersInsertFailed
           /\ err_ctr'[RouteOrdersCreate] = err_ctr[RouteOrdersCreate] + 1
           /\ orders' = orders]_vars

\* C20: a create_order whose id is already stored, handled after the first
\* or as the loser of a concurrent same-id create_order, fails: with 500
\* "Database insert failed" when its user validation passed and with 400
\* "Invalid user ID" when it did not; either way it adds 1 to the error
\* counter of /orders and leaves the orders as they were.  At most one
\* Order is stored per id.
C20_StoredIdFailsOnceCounted ==
    [][/\ \A p \in Procs :
            (~Free(p) /\ procs[p].kind = "create_order" /\ procs'[p].pc = "done" /\ OrderIdStored(p))
            => /\ procs'[p].result = IF procs[p].pc = "insert_order_db" THEN OrdersInsertFailed ELSE OrdersInvalidUser
               /\ err_ctr'[RouteOrdersCreate] = err_ctr[RouteOrdersCreate] + 1
               /\ orders' = orders
       /\ \A a, b \in orders' : a.id = b.id => a = b]_vars

\* A create_order passed its user validation, met a stored Order of its id
\* at the insert and was answered.
C20_Witness ==
    \E p \in Procs :
        /\ Answered(p, "create_order")
        /\ procs[p].result = OrdersInsertFailed
        /\ OrderIdStored(p)

\* The service whose handler starts the span `name` as its outermost span.
ServiceOf(name) ==
    CASE name \in {"payments/create_payment", "payments/get_payment_status"} -> "payments"
      [] name \in {"orders/create_order", "orders/get_orders_for_user", "orders/validate_order_id"} -> "orders"
      [] name \in {"user/create_user", "user/get_user_lookup"} -> "user"

\* The handlers a request is inside of right now, outermost first: its own
\* and those its pending remote calls are running.
OpenHandlers(pr) == SelectSeq(pr.spans, LAMBDA s : s.open /\ s.parent = "")

\* The answers create_payment may give.
PaymentOutcomes ==
    {Response(200, "", [message |-> "Processed", status |-> st, payment_id |-> id]) : st \in Statuses, id \in PaymentIds}
    \cup {DuplicatePayment, InvalidOrder, OwnershipMismatch, InvalidUser, InternalServerError}

\* No service appears twice in the chain of handlers a request is inside
\* of, and the chain runs payments, orders, user.
ChainAcyclic(pr) ==
    LET h == OpenHandlers(pr) IN
    /\ \A i, j \in 1..Len(h) : ServiceOf(h[i].name) = ServiceOf(h[j].name) => i = j
    /\ \A i \in 1..Len(h) : i > 1 => ServiceOf(h[i - 1].name) = "payments" /\ ServiceOf(h[i].name) = "orders"

\* C21: with every handler running on and every remote call ending in an
\* answer or a transport failure, every create_payment in flight is
\* eventually answered, with one of Processed (Success or Failed),
\* DuplicatePayment, InvalidOrder, OwnershipMismatch, InvalidUser or
\* Internal; the handlers a request waits in never hold one service twice.
C21_CreatePaymentTerminates ==
    /\ \A p \in Procs :
        (procs[p].kind = "create_payment" /\ ~Free(p))
        ~> (Answered(p, "create_payment") /\ procs[p].result \in PaymentOutcomes)
    /\ [](\A p \in Procs :
            /\ ChainAcyclic(procs[p])
            /\ Answered(p, "create_payment") => procs[p].result \in PaymentOutcomes)

\* One create_payment was answered Processed while another waits inside the
\* orders handler its order validation called.
C21_Witness ==
    \E p, q \in Procs :
        /\ Answered(p, "create_payment")
        /\ procs[p].result.code = 200
        /\ procs[q].kind = "create_payment"
        /\ procs[q].pc = "validate_order_id_user"
        /\ Len(OpenHandlers(procs[q])) = 2

====
